---- MODULE Spec2Model ----
(***************************************************************************)
(* Model of src/src/mcp_server_shioaji/server.py: the lifespan of the      *)
(* Shioaji session (get_credentials, app_lifespan) and the three tool      *)
(* handlers (get_stock_price, get_kbars, list_stocks).                     *)
(*                                                                         *)
(* Encoding of Python values:                                              *)
(*   str            a sequence of one-character strings ("" is << >>)      *)
(*   Optional[x]    None is << >>, a present value x is << x >>            *)
(*   attribute      a record field; an absent attribute is an absent field *)
(***************************************************************************)
EXTENDS Integers, Sequences, FiniteSets, TLC

\* ------------------------------------------------------------------ bounds

\* longest `symbols` argument of get_stock_price, in characters
MaxSymLen == 3
\* largest `limit` argument of list_stocks
MaxLimit == 2
\* most contracts the backend loads into api.Contracts.Stocks
MaxContracts == 2

\* ------------------------------------------------------- Python primitives

None == << >>

Some(x) == << x >>

\* bool(v) is False for an Optional[str]: None or the empty string
Falsy(opt) == opt = None \/ opt[1] = << >>

\* str.split(sep) for a one-character separator: every separator cuts, so
\* "" gives [""] and "a," gives ["a", ""]
RECURSIVE SplitFrom(_, _, _)
SplitFrom(s, sep, cur) ==
    IF s = << >> THEN << cur >>
    ELSE IF Head(s) = sep THEN << cur >> \o SplitFrom(Tail(s), sep, << >>)
    ELSE SplitFrom(Tail(s), sep, Append(cur, Head(s)))

Split(s, sep) == SplitFrom(s, sep, << >>)

Digit(n) == << "0", "1", "2", "3", "4", "5", "6", "7", "8", "9" >>[n + 1]

\* zero-padded decimal of n on w characters (%Y is 4 wide, %m and %d are 2)
RECURSIVE Pad(_, _)
Pad(n, w) == IF w = 0 THEN << >> ELSE Append(Pad(n \div 10, w - 1), Digit(n % 10))

\* datetime.strftime("%Y-%m-%d")
Strftime(d) == Pad(d.year, 4) \o << "-" >> \o Pad(d.month, 2) \o << "-" >> \o Pad(d.day, 2)

\* getattr(obj, "category", default)
GetattrCategory(obj, default) ==
    IF "category" \in DOMAIN obj THEN obj.category ELSE default

\* ------------------------------------------------------------- input sets

Chars == { "a", "b", "," }

Strings(n) == UNION { [1..k -> Chars] : k \in 0..n }

\* the values os.getenv can give for a key: unset, set but empty, set
EnvValues == { None, Some(<< >>), Some(<< "k" >>) }

\* the contracts the backend can hold; the second has no category attribute
TSE == << "T", "S", "E" >>
OTC == << "O", "T", "C" >>

ContractA == [code |-> << "a" >>, name |-> "Alpha", exchange |-> TSE, category |-> "24"]
ContractB == [code |-> << "b" >>, name |-> "Beta", exchange |-> OTC]
ContractAB == [code |-> << "a", "b" >>, name |-> "Gamma", exchange |-> TSE]

Universe == << ContractA, ContractB, ContractAB >>

\* the contract sets fetch_contracts can load: sequences without repetition,
\* in the backend's own order
ContractSets ==
    { [i \in 1..Len(ix) |-> Universe[ix[i]]] :
        ix \in { s \in UNION { [1..k -> 1..Len(Universe)] : k \in 0..MaxContracts } :
                   \A i, j \in 1..Len(s) : i # j => s[i] # s[j] } }

Exchanges == { None, Some(<< >>), Some(TSE), Some(OTC), Some(<< "X" >>) }

Industries == { None, Some(<< "i" >>) }

Symbols == { << "a" >>, << "z" >> }

Date1 == [year |-> 2024, month |-> 5, day |-> 1]
Date2 == [year |-> 2024, month |-> 12, day |-> 31]

\* what the process clock can read at call time
Clock == { Date1, Date2 }

DateArgs == { None, Some(<< >>), Some(Strftime(Date1)), Some(Strftime(Date2)) }

\* what api.snapshots can answer: a snapshot for every requested contract, for
\* the first one only, for none, or an error
SnapshotResps == { [kind |-> k, ts |-> 1500] : k \in { "all", "first", "empty" } }
                     \cup { [kind |-> "error"] }

\* what api.kbars can answer: the bars as columns (none, or two), or an error
KbarResps == { [kind |-> "bars", columns |-> [ts |-> << >>, Close |-> << >>]],
               [kind |-> "bars", columns |-> [ts |-> << 1500, 2500 >>, Close |-> << 10, 11 >>]],
               [kind |-> "error"] }

\* what api.Contracts.Stocks[code] does for a code it does not hold: the SDK
\* decides (it raises, or it gives None)
LookupModes == { "KeyError", "None" }

\* ------------------------------------------------------------------ state

VARIABLES
    env,              \* the process environment after load_dotenv
    pc,               \* where app_lifespan stands
    session,          \* the sj.Shioaji object `api`
    lifespan_context, \* ctx.request_context.lifespan_context seen by handlers
    trace,            \* the startup steps completed, in order
    pending,          \* the exception propagating inside app_lifespan
    raised,           \* the exception that left app_lifespan
    log,              \* the error-level messages logged by app_lifespan
    last              \* the latest handler invocation

vars == << env, pc, session, lifespan_context, trace, pending, raised, log, last >>

NoSession == [constructed |-> FALSE, logged_in |-> FALSE, synced |-> FALSE,
              contracts |-> << >>, logout_calls |-> 0, logout_outcome |-> "not called"]

NoContext == [kind |-> "none"]

NoCall == [name |-> "none"]

NoError == "none"

\* the exceptions that derive from BaseException but not from Exception
BaseExceptionsOnly == { "KeyboardInterrupt", "CancelledError" }

\* whether an `except Exception` clause (lines 61 and 70) catches e
CaughtAsException(e) == e \notin BaseExceptionsOnly

\* ------------------------------------------------ credentials and lifespan

\* get_credentials: the pair of keys, or ValueError when either is unset or empty
get_credentials(e) ==
    IF Falsy(e.api_key) \/ Falsy(e.secret_key)
    THEN [kind |-> "raise", error |-> "ValueError"]
    ELSE [kind |-> "return", api_key |-> e.api_key[1], secret_key |-> e.secret_key[1]]

\* AppContext(api=api): a dataclass instance whose attribute `api` refers to the session
AppContext(api) == [kind |-> "AppContext", api |-> api]

\* a plain mapping {"api": api}, as a caller that builds the context by hand may pass
DictContext(api) == [kind |-> "dict", api |-> api]

Init ==
    /\ env \in [api_key : EnvValues, secret_key : EnvValues]
    /\ pc = "start"
    /\ session = NoSession
    /\ lifespan_context = NoContext
    /\ trace = << >>
    /\ pending = NoError
    /\ raised = NoError
    /\ log = << >>
    /\ last = NoCall

\* app_lifespan, lines 45-48: load the credentials (outside the try block),
\* then construct the session
LoadCredentials ==
    /\ pc = "start"
    /\ LET r == get_credentials(env) IN
         IF r.kind = "raise"
         THEN /\ raised' = r.error
              /\ pc' = "done"
              /\ UNCHANGED << session, trace >>
         ELSE /\ session' = [NoSession EXCEPT !.constructed = TRUE]
              /\ trace' = Append(trace, "credentials")
              /\ pc' = "login"
              /\ UNCHANGED raised
    /\ UNCHANGED << env, lifespan_context, pending, log, last >>

\* Login with the failure logged and startup carried on (a swallowed error)
Login_ContinuesOnFailure ==
    /\ pc = "login"
    /\ \E ok \in BOOLEAN :
         /\ session' = [session EXCEPT !.logged_in = ok]
         /\ trace' = IF ok THEN Append(trace, "login") ELSE trace
         /\ pc' = "fetch"
         /\ UNCHANGED pending
    /\ UNCHANGED << env, lifespan_context, raised, log, last >>

\* app_lifespan, line 52: api.login returns, raises an Exception, or is cut
\* short by a BaseException, which the except clause of line 61 lets through
Login ==
    /\ pc = "login"
    /\ \E r \in { "ok", "LoginError", "KeyboardInterrupt" } :
         IF r = "ok"
         THEN /\ session' = [session EXCEPT !.logged_in = TRUE]
              /\ trace' = Append(trace, "login")
              /\ pc' = "fetch"
              /\ UNCHANGED pending
         ELSE /\ pending' = r
              /\ pc' = IF CaughtAsException(r) THEN "except" ELSE "finally"
              /\ UNCHANGED << session, trace >>
    /\ UNCHANGED << env, lifespan_context, raised, log, last >>

\* app_lifespan, line 56: api.fetch_contracts loads the contract set, raises,
\* gives up after contracts_timeout, or is cut short by a BaseException
FetchContracts ==
    /\ pc = "fetch"
    /\ \E r \in { "ok", "FetchError", "TimeoutError", "KeyboardInterrupt" } :
         IF r = "ok"
         THEN /\ \E cs \in ContractSets :
                   session' = [session EXCEPT !.contracts = cs, !.synced = TRUE]
              /\ trace' = Append(trace, "contracts")
              /\ pc' = "yield"
              /\ UNCHANGED pending
         ELSE /\ pending' = r
              /\ pc' = IF CaughtAsException(r) THEN "except" ELSE "finally"
              /\ UNCHANGED << session, trace >>
    /\ UNCHANGED << env, lifespan_context, raised, log, last >>

\* app_lifespan, line 60: yield AppContext(api=api); the serving phase begins
Yield ==
    /\ pc = "yield"
    /\ lifespan_context' = AppContext("session")
    /\ trace' = Append(trace, "yield")
    /\ pc' = "serving"
    /\ UNCHANGED << env, session, pending, raised, log, last >>

\* the serving phase ends: the generator is resumed normally, an Exception is
\* thrown into it at the yield, or a BaseException (a cancellation) is, which
\* `except Exception` does not catch
ServeEnd ==
    /\ pc = "serving"
    /\ \E how \in { "normal", "ServeError", "CancelledError" } :
         /\ pending' = IF how = "normal" THEN NoError ELSE how
         /\ pc' = IF how # "normal" /\ CaughtAsException(how) THEN "except" ELSE "finally"
    /\ UNCHANGED << env, session, lifespan_context, trace, raised, log, last >>

\* app_lifespan, lines 61-63: log the error and re-raise it
Except ==
    /\ pc = "except"
    /\ log' = Append(log, "Error initializing Shioaji API")
    /\ pc' = "finally"
    /\ UNCHANGED << env, session, lifespan_context, trace, pending, raised, last >>

\* what api.logout() can do: return, raise an Exception, or be cut short by a
\* BaseException (an interrupt during the call)
LogoutOutcomes == { "ok", "LogoutError", "KeyboardInterrupt" }

\* the error-level log after logout ended with r: line 71 runs only when the
\* except clause of line 70 caught it
LogAfterLogout(r) ==
    IF r # "ok" /\ CaughtAsException(r)
    THEN Append(log, "Error during Shioaji API logout")
    ELSE log

\* Finally with logout attempted only on a session that is logged in
Finally_LogoutIfLoggedIn ==
    /\ pc = "finally"
    /\ \E r \in LogoutOutcomes :
         IF session.logged_in
         THEN /\ session' = [session EXCEPT !.logout_calls = @ + 1,
                                            !.logout_outcome = r,
                                            !.logged_in = IF r = "ok" THEN FALSE ELSE @]
              /\ log' = LogAfterLogout(r)
              /\ raised' = IF r = "ok" \/ CaughtAsException(r) THEN pending ELSE r
         ELSE /\ raised' = pending
              /\ UNCHANGED << session, log >>
    /\ pc' = "done"
    /\ UNCHANGED << env, lifespan_context, trace, pending, last >>

\* Finally with the logout error logged and then re-raised
Finally_ReraisesLogoutError ==
    /\ pc = "finally"
    /\ \E r \in LogoutOutcomes :
         /\ session' = [session EXCEPT !.logout_calls = @ + 1,
                                       !.logout_outcome = r,
                                       !.logged_in = IF r = "ok" THEN FALSE ELSE @]
         /\ log' = LogAfterLogout(r)
         /\ raised' = IF r = "ok" THEN pending ELSE r
    /\ pc' = "done"
    /\ UNCHANGED << env, lifespan_context, trace, pending, last >>

\* app_lifespan, lines 64-71: api.logout() is called. An Exception it raises
\* is caught at line 70, logged and dropped, and the exception that was
\* propagating (if any) then leaves app_lifespan. A BaseException that is not
\* an Exception is not caught: nothing is logged and it leaves app_lifespan
\* in place of whatever was propagating.
Finally ==
    /\ pc = "finally"
    /\ \E r \in LogoutOutcomes :
         /\ session' = [session EXCEPT !.logout_calls = @ + 1,
                                       !.logout_outcome = r,
                                       !.logged_in = IF r = "ok" THEN FALSE ELSE @]
         /\ log' = LogAfterLogout(r)
         /\ raised' = IF r = "ok" \/ CaughtAsException(r) THEN pending ELSE r
    /\ pc' = "done"
    /\ UNCHANGED << env, lifespan_context, trace, pending, last >>

\* ---------------------------------------------------------------- handlers

\* lifespan_context[key]: a mapping gives the value under the key; a dataclass
\* instance defines no __getitem__, so subscripting it raises TypeError
GetItem(lc, key) ==
    IF lc.kind = "dict"
    THEN IF key \in DOMAIN lc
         THEN [kind |-> "return", value |-> lc[key]]
         ELSE [kind |-> "raise", error |-> "KeyError"]
    ELSE [kind |-> "raise", error |-> "TypeError"]

\* code in api.Contracts.Stocks
Contains(stocks, code) == \E i \in 1..Len(stocks) : stocks[i].code = code

\* api.Contracts.Stocks[code] for a code the set holds
Lookup(stocks, code) ==
    stocks[CHOOSE i \in 1..Len(stocks) :
             /\ stocks[i].code = code
             /\ \A j \in 1..(i - 1) : stocks[j].code # code]

\* pl.from_epoch(ts, time_unit="ns"): the datetime of that instant
FromEpoch(ts) == [epoch_ns |-> ts]

\* with_columns(from_epoch("ts").alias("datetime")).select(exclude("ts")) on one row
Reshape(row) ==
    [f \in (DOMAIN row \ { "ts" }) \cup { "datetime" } |->
        IF f = "datetime" THEN FromEpoch(row.ts) ELSE row[f]]

\* pl.DataFrame(columns) ... .to_dicts(): one row per index of the columns
ToDicts(columns) ==
    [i \in 1..Len(columns.ts) |-> Reshape([f \in DOMAIN columns |-> columns[f][i]])]

\* the snapshot the backend gives for a contract
Snapshot(contract, ts) == [code |-> contract.code, ts |-> ts, close |-> 10]

\* api.snapshots(contracts) under the backend's answer
Snapshots(contracts, resp) ==
    IF resp.kind = "all"
    THEN [i \in 1..Len(contracts) |-> Snapshot(contracts[i], resp.ts)]
    ELSE IF resp.kind = "first" /\ contracts # << >>
    THEN << Snapshot(contracts[1], resp.ts) >>
    ELSE << >>

\* [api.Contracts.Stocks[code] for code in codes if code in api.Contracts.Stocks]
RECURSIVE KnownContracts(_, _)
KnownContracts(stocks, codes) ==
    IF codes = << >> THEN << >>
    ELSE IF Contains(stocks, Head(codes))
    THEN << Lookup(stocks, Head(codes)) >> \o KnownContracts(stocks, Tail(codes))
    ELSE KnownContracts(stocks, Tail(codes))

\* get_stock_price, lines 98-115
get_stock_price(lc, api, symbols, resp) ==
    LET got == GetItem(lc, "api") IN
    IF got.kind = "raise"
    THEN [requests |-> << >>,
          outcome |-> [kind |-> "raise", error |-> got.error, at |-> "retrieval"]]
    ELSE
    LET codes == Split(symbols, ",")
        contracts == KnownContracts(api.contracts, codes)
        snapshots == Snapshots(contracts, resp)
        request == [op |-> "snapshots", contracts |-> contracts,
                    answer |-> IF resp.kind = "error" THEN "error" ELSE "ok",
                    returned |-> IF resp.kind = "error" THEN << >> ELSE snapshots]
    IN  IF resp.kind = "error"
        THEN [requests |-> << request >>,
              outcome |-> [kind |-> "raise", error |-> "BackendError", at |-> "snapshots"]]
        ELSE IF snapshots = << >>
        THEN [requests |-> << request >>,
              outcome |-> [kind |-> "raise", error |-> "ValueError", at |-> "no data",
                           names |-> codes]]
        ELSE [requests |-> << request >>,
              outcome |-> [kind |-> "return",
                           value |-> [i \in 1..Len(snapshots) |-> Reshape(snapshots[i])]]]

\* get_kbars, lines 141-161
get_kbars(lc, api, symbol, start_date, end_date, today, mode, resp) ==
    LET got == GetItem(lc, "api") IN
    IF got.kind = "raise"
    THEN [requests |-> << >>,
          outcome |-> [kind |-> "raise", error |-> got.error, at |-> "retrieval"]]
    ELSE IF ~Contains(api.contracts, symbol) /\ mode = "KeyError"
    THEN [requests |-> << >>,
          outcome |-> [kind |-> "raise", error |-> "KeyError", at |-> "lookup"]]
    ELSE
    LET contract == IF Contains(api.contracts, symbol)
                    THEN Some(Lookup(api.contracts, symbol)) ELSE None
        start == IF Falsy(start_date) THEN Strftime(today) ELSE start_date[1]
        end == IF Falsy(end_date) THEN start ELSE end_date[1]
        request == [op |-> "kbars", contract |-> contract, start |-> start, end |-> end,
                    answer |-> IF resp.kind = "error" THEN "error" ELSE "ok"]
    IN  IF resp.kind = "error"
        THEN [requests |-> << request >>,
              outcome |-> [kind |-> "raise", error |-> "BackendError", at |-> "kbars"]]
        ELSE [requests |-> << request >>,
              outcome |-> [kind |-> "return", value |-> ToDicts(resp.columns)]]

\* list_stocks, lines 191-210: the loop over the contracts not yet visited
RECURSIVE ListLoop(_, _, _, _)
ListLoop(stocks, exchange, limit, filtered_stocks) ==
    IF stocks = << >> THEN filtered_stocks
    ELSE
    LET stock == Head(stocks) IN
    IF ~Falsy(exchange) /\ stock.exchange # exchange[1]
    THEN ListLoop(Tail(stocks), exchange, limit, filtered_stocks)
    ELSE
    LET appended == Append(filtered_stocks,
                           [code |-> stock.code, name |-> stock.name,
                            exchange |-> stock.exchange,
                            category |-> GetattrCategory(stock, "Unknown")])
    IN  IF Len(appended) >= limit
        THEN appended
        ELSE ListLoop(Tail(stocks), exchange, limit, appended)

\* list_stocks, lines 187-210
list_stocks(lc, api, exchange, industry, limit) ==
    LET got == GetItem(lc, "api") IN
    IF got.kind = "raise"
    THEN [requests |-> << >>,
          outcome |-> [kind |-> "raise", error |-> got.error, at |-> "retrieval"]]
    ELSE [requests |-> << >>,
          outcome |-> [kind |-> "return",
                       value |-> ListLoop(api.contracts, exchange, limit, << >>)]]

\* a handler invocation as recorded in `last`: its arguments, what the
\* backend would answer if asked, the backend requests it made and how it ended
Call(name, args, backend, result) ==
    [name |-> name, args |-> args, backend |-> backend,
     requests |-> result.requests, outcome |-> result.outcome]

\* GetStockPrice with the session's contracts dropped when the call fails
GetStockPrice_ResetsOnFailure ==
    /\ pc = "serving"
    /\ \E symbols \in Strings(MaxSymLen), resp \in SnapshotResps :
         LET result == get_stock_price(lifespan_context, session, symbols, resp) IN
         /\ last' = Call("get_stock_price", [symbols |-> symbols], [resp |-> resp], result)
         /\ session' = IF result.outcome.kind = "raise"
                       THEN [session EXCEPT !.contracts = << >>]
                       ELSE session
    /\ UNCHANGED << env, pc, lifespan_context, trace, pending, raised, log >>

\* one invocation of the get_stock_price tool during the serving phase
GetStockPrice ==
    /\ pc = "serving"
    /\ \E symbols \in Strings(MaxSymLen), resp \in SnapshotResps :
         last' = Call("get_stock_price", [symbols |-> symbols], [resp |-> resp],
                      get_stock_price(lifespan_context, session, symbols, resp))
    /\ UNCHANGED << env, pc, session, lifespan_context, trace, pending, raised, log >>

\* one invocation of the get_kbars tool during the serving phase
GetKbars ==
    /\ pc = "serving"
    /\ \E symbol \in Symbols, start_date \in DateArgs, end_date \in DateArgs,
          today \in Clock, mode \in LookupModes, resp \in KbarResps :
         last' = Call("get_kbars",
                      [symbol |-> symbol, start_date |-> start_date,
                       end_date |-> end_date, today |-> today],
                      [mode |-> mode, resp |-> resp],
                      get_kbars(lifespan_context, session, symbol, start_date, end_date,
                                today, mode, resp))
    /\ UNCHANGED << env, pc, session, lifespan_context, trace, pending, raised, log >>

\* one invocation of the list_stocks tool during the serving phase
ListStocks ==
    /\ pc = "serving"
    /\ \E exchange \in Exchanges, industry \in Industries, limit \in 0..MaxLimit :
         last' = Call("list_stocks",
                      [exchange |-> exchange, industry |-> industry, limit |-> limit],
                      [resp |-> "unused"],
                      list_stocks(lifespan_context, session, exchange, industry, limit))
    /\ UNCHANGED << env, pc, session, lifespan_context, trace, pending, raised, log >>

Handler == GetStockPrice \/ GetKbars \/ ListStocks

\* --------------------------------------------------------- specifications

\* the server process: app_lifespan around the serving phase
Next ==
    \/ LoadCredentials
    \/ Login
    \/ FetchContracts
    \/ Yield
    \/ GetStockPrice
    \/ GetKbars
    \/ ListStocks
    \/ ServeEnd
    \/ Except
    \/ Finally

Spec == Init /\ [][Next]_vars

\* the handlers applied as functions: the session and the shape of the
\* context object are inputs
InitHandlers ==
    /\ env = [api_key |-> Some(<< "k" >>), secret_key |-> Some(<< "k" >>)]
    /\ pc = "serving"
    /\ \E cs \in ContractSets :
         session = [constructed |-> TRUE, logged_in |-> TRUE, synced |-> TRUE,
                    contracts |-> cs, logout_calls |-> 0, logout_outcome |-> "not called"]
    /\ lifespan_context \in { AppContext("session"), DictContext("session") }
    /\ trace = << "credentials", "login", "contracts", "yield" >>
    /\ pending = NoError
    /\ raised = NoError
    /\ log = << >>
    /\ last = NoCall

NextHandlers ==
    \/ GetStockPrice
    \/ GetKbars
    \/ ListStocks

SpecHandlers == InitHandlers /\ [][NextHandlers]_vars

\* ------------------------------------------------------------ properties

StartupSteps == << "credentials", "login", "contracts" >>

StartupErrors == { "ValueError", "LoginError", "FetchError", "TimeoutError" }

\* logout ended by raising, whatever it raised
LogoutRaised == session.logout_outcome \notin { "not called", "ok" }

\* logout ended by raising an Exception
LogoutRaisedException == LogoutRaised /\ CaughtAsException(session.logout_outcome)

Yielded == \E i \in 1..Len(trace) : trace[i] = "yield"

LogoutFailed == \E i \in 1..Len(log) : log[i] = "Error during Shioaji API logout"

Min(a, b) == IF a <= b THEN a ELSE b

Take(seq, n) == SubSeq(seq, 1, Min(n, Len(seq)))

\* the contracts of `stocks`, in order, that an exchange filter lets through
Matching(stocks, exchange) ==
    SelectSeq(stocks, LAMBDA c : Falsy(exchange) \/ c.exchange = exchange[1])

\* the record list_stocks is to emit for a contract
StockRecord(c) ==
    [code |-> c.code, name |-> c.name, exchange |-> c.exchange,
     category |-> IF "category" \in DOMAIN c THEN c.category ELSE "Unknown"]

\* the codes of `codes`, in order, that the contract set holds
KnownCodes(stocks, codes) == SelectSeq(codes, LAMBDA c : Contains(stocks, c))

CodesOf(contracts) == [i \in 1..Len(contracts) |-> contracts[i].code]

FailedAtRetrieval(call) == call.outcome.kind = "raise" /\ call.outcome.at = "retrieval"

\* the invocation `call` made again on context lc and session api
Replay(call, lc, api) ==
    IF call.name = "get_stock_price"
    THEN Call(call.name, call.args, call.backend,
              get_stock_price(lc, api, call.args.symbols, call.backend.resp))
    ELSE IF call.name = "get_kbars"
    THEN Call(call.name, call.args, call.backend,
              get_kbars(lc, api, call.args.symbol, call.args.start_date,
                        call.args.end_date, call.args.today, call.backend.mode,
                        call.backend.resp))
    ELSE Call(call.name, call.args, call.backend,
              list_stocks(lc, api, call.args.exchange, call.args.industry,
                          call.args.limit))

\* C1: once app_lifespan has exited with the Session constructed, logout has
\* been invoked on it exactly once, whatever the exit path; it is never
\* invoked twice, and never on a session that was not constructed.
C1_LogoutExactlyOnce ==
    /\ session.logout_calls <= 1
    /\ (pc = "done" /\ session.constructed) => session.logout_calls = 1
    /\ ~session.constructed => session.logout_calls = 0

C1_Witness ==
    /\ pc = "done"
    /\ session.constructed
    /\ raised = "LoginError"
    /\ session.logout_calls = 1

\* C2 as stated: a handler is served, and the context is yielded, only after
\* credential loading, login and contract synchronization have completed in
\* that order; when credentials are missing, login fails or synchronization
\* fails or times out, nothing is yielded, no handler runs, and that error is
\* what leaves app_lifespan.
C2_StartupErrorPropagates ==
    /\ (last # NoCall \/ pc = "serving" \/ lifespan_context # NoContext \/ Yielded)
         => /\ Len(trace) >= 3
            /\ SubSeq(trace, 1, 3) = StartupSteps
            /\ session.constructed
            /\ session.synced
    /\ pc = "serving" => session.logged_in
    /\ (pc = "done" /\ (Falsy(env.api_key) \/ Falsy(env.secret_key)))
         => raised = "ValueError"
    /\ (pc = "done" /\ ~Yielded)
         => /\ raised # NoError
            /\ session.constructed => raised = pending
            /\ lifespan_context = NoContext
            /\ last = NoCall

\* C2, amended: a handler is served, and the context is yielded, only after
\* credential loading, login and contract synchronization have completed in
\* that order; when credentials are missing, login fails or synchronization
\* fails or times out, nothing is yielded, no handler runs, and app_lifespan
\* ends by raising: that error, unless logout is cut short by a BaseException
\* that is not an Exception, which then leaves in its place.
C2_ServedOnlyAfterStartup ==
    /\ (last # NoCall \/ pc = "serving" \/ lifespan_context # NoContext \/ Yielded)
         => /\ Len(trace) >= 3
            /\ SubSeq(trace, 1, 3) = StartupSteps
            /\ session.constructed
            /\ session.synced
    /\ pc = "serving" => session.logged_in
    /\ (pc = "done" /\ (Falsy(env.api_key) \/ Falsy(env.secret_key)))
         => raised = "ValueError"
    /\ (pc = "done" /\ ~Yielded)
         => /\ raised # NoError
            /\ (session.constructed /\ session.logout_outcome \notin BaseExceptionsOnly)
                 => raised = pending
            /\ (session.constructed /\ session.logout_outcome \in BaseExceptionsOnly)
                 => raised = session.logout_outcome
            /\ lifespan_context = NoContext
            /\ last = NoCall
    /\ (pc = "done" /\ raised \in StartupErrors)
         => /\ ~Yielded
            /\ lifespan_context = NoContext
            /\ last = NoCall

C2_Witness ==
    /\ last # NoCall
    /\ pc = "serving"
    /\ trace = << "credentials", "login", "contracts", "yield" >>

\* C7 as stated: whenever logout raised during release, what leaves
\* app_lifespan is the error that was already propagating (none after a normal
\* end of the serving phase), never what logout raised.
C7_AnyLogoutRaiseDropped ==
    (pc = "done" /\ LogoutRaised) => raised = pending

\* C7, amended: when logout raises an Exception during release, the failure is
\* logged and app_lifespan ends with the error that was already propagating
\* (none after a normal end of the serving phase), never the logout error; a
\* BaseException that is not an Exception raised by logout is not logged and
\* leaves app_lifespan in place of whatever was propagating.
C7_LogoutExceptionNotRaised ==
    /\ (pc = "done" /\ LogoutRaisedException)
         => /\ raised = pending
            /\ raised # session.logout_outcome
            /\ LogoutFailed
    /\ (pc = "done" /\ LogoutRaised /\ ~LogoutRaisedException)
         => /\ raised = session.logout_outcome
            /\ ~LogoutFailed

C7_Witness ==
    /\ pc = "done"
    /\ LogoutRaisedException
    /\ LogoutFailed
    /\ raised = NoError
    /\ last # NoCall

\* C8: a handler step of the serving phase, failed or not, leaves the Session
\* and the shared context as they were, and the invocation made before it
\* would give the same result if made again after it.
C8_HandlersLeaveSession ==
    [][(pc = "serving" /\ pc' = "serving")
         => /\ session' = session
            /\ lifespan_context' = lifespan_context
            /\ last # NoCall => Replay(last, lifespan_context', session') = last]_vars

C8_Witness ==
    /\ pc = "serving"
    /\ last # NoCall
    /\ last.outcome.kind = "raise"
    /\ session.logged_in
    /\ session.synced
    /\ session.contracts # << >>

\* C9: no handler invocation fails at the step that retrieves the session
\* from the context object app_lifespan yielded.
C9_RetrievalNeverFails ==
    last # NoCall => ~FailedAtRetrieval(last)

\* C3: list_stocks never returns more than `limit` records, and with
\* limit = 0 it returns the empty sequence.
C3_AtMostLimit ==
    last.name = "list_stocks"
      => /\ last.outcome.kind = "return" => Len(last.outcome.value) <= last.args.limit
         /\ last.args.limit = 0
              => /\ last.outcome.kind = "return"
                 /\ last.outcome.value = << >>

\* C10: for a positive limit, list_stocks returns the records of the first
\* `limit` contracts (all when fewer) that the exchange filter lets through, in
\* backend order, whatever the industry argument, category "Unknown" when the
\* contract has none; a filter matching nothing gives the empty sequence.
C10_FirstLimitMatching ==
    (last.name = "list_stocks" /\ last.args.limit > 0)
      => /\ last.outcome.kind = "return"
         /\ LET wanted == Take(Matching(session.contracts, last.args.exchange),
                               last.args.limit)
            IN  last.outcome.value = [i \in 1..Len(wanted) |-> StockRecord(wanted[i])]

\* C4: get_stock_price requests snapshots for exactly the contracts of the
\* codes the contract set holds, in input order; when the backend answers with
\* no snapshot the call fails with the not-found error naming the requested
\* codes, and otherwise it returns one record per snapshot.
C4_SnapshotsForKnownCodes ==
    last.name = "get_stock_price"
      => /\ Len(last.requests) = 1
         /\ last.requests[1].op = "snapshots"
         /\ CodesOf(last.requests[1].contracts)
              = KnownCodes(session.contracts, Split(last.args.symbols, ","))
         /\ (last.requests[1].answer = "ok" /\ last.requests[1].returned = << >>)
              => /\ last.outcome.kind = "raise"
                 /\ last.outcome.error = "ValueError"
                 /\ last.outcome.names = Split(last.args.symbols, ",")
         /\ (last.requests[1].answer = "ok" /\ last.requests[1].returned # << >>)
              => /\ last.outcome.kind = "return"
                 /\ Len(last.outcome.value) = Len(last.requests[1].returned)

\* C5: get_kbars without end_date makes the backend request that the same call
\* with end_date = start_date makes, and without any date it requests the bars
\* of a held symbol with start and end both today's date.
C5_KbarsDateDefaults ==
    last.name = "get_kbars"
      => /\ last.args.end_date = None
              => last.requests
                   = get_kbars(lifespan_context, session, last.args.symbol,
                               last.args.start_date, last.args.start_date,
                               last.args.today, last.backend.mode,
                               last.backend.resp).requests
         /\ (/\ last.args.start_date = None
             /\ last.args.end_date = None
             /\ Contains(session.contracts, last.args.symbol))
              => /\ Len(last.requests) = 1
                 /\ last.requests[1].start = Strftime(last.args.today)
                 /\ last.requests[1].end = Strftime(last.args.today)

\* C6: get_kbars for a symbol the contract set does not hold fails with a
\* not-found error at the contract lookup, before any bar request.
C6_UnknownSymbolNotFound ==
    (last.name = "get_kbars" /\ ~Contains(session.contracts, last.args.symbol))
      => /\ last.outcome.kind = "raise"
         /\ last.outcome.at = "lookup"
         /\ last.requests = << >>

\* ------------------------------------------- the handlers' logic on its own
\* Checked under SpecHandlers: what the handlers compute once the session has
\* been retrieved, which a context that is a mapping allows.

RetrievedFromMapping == lifespan_context.kind = "dict"

\* list_stocks past the retrieval: the first `limit` matching contracts
Logic_ListStocks == RetrievedFromMapping => C10_FirstLimitMatching

\* list_stocks past the retrieval: never more than `limit` records (this one
\* fails for limit = 0: the loop appends before it tests the length)
Logic_ListStocksAtMostLimit ==
    (RetrievedFromMapping /\ last.name = "list_stocks" /\ last.outcome.kind = "return")
      => Len(last.outcome.value) <= last.args.limit

\* get_stock_price past the retrieval: snapshots for the known codes
Logic_GetStockPrice == RetrievedFromMapping => C4_SnapshotsForKnownCodes

\* get_kbars past the retrieval: the defaults of the two dates
Logic_GetKbars == RetrievedFromMapping => C5_KbarsDateDefaults

\* get_kbars past the retrieval, on an SDK whose lookup raises for a code it
\* does not hold
Logic_GetKbarsUnknown ==
    (RetrievedFromMapping /\ last.name = "get_kbars" /\ last.backend.mode = "KeyError")
      => C6_UnknownSymbolNotFound

====
